---- MODULE Spec2Model ----
(***************************************************************************)
(* Model of the ACT / ACTSP algorithm wrappers of mimicplay/algo/act.py:   *)
(*   - the chunked rollout (get_action / reset) with its step counter and  *)
(*     cached action chunk,                                                *)
(*   - the training and evaluation forward passes with the modality router *)
(*     and the batch-to-model projection,                                  *)
(*   - the pad-masked L1 reconstruction loss of the training step.         *)
(* The external policy network (act.detr) is opaque: its output is a       *)
(* symbolic tensor tagged with the number of the invocation that made it.  *)
(***************************************************************************)
EXTENDS Integers, Sequences, FiniteSets, TLC

(* ------------------------------ bounds --------------------------------- *)
MaxChunk == 3      \* largest configured train.seq_length explored
MaxCalls == 7      \* number of get_action calls explored per behaviour
MaxB == 2          \* largest batch size of a forward pass
MaxADim == 4       \* largest last dimension of the action tensor
MaxForward == 2    \* policy invocations by forward passes per behaviour
MaxLossB == 2      \* largest batch size of the loss computation
MaxLossT == 2      \* largest chunk length of the loss computation
MaxLossD == 1      \* largest action dimension of the loss computation
MaxVal == 1        \* action values range over 0..MaxVal
MaxKLB == 2        \* largest batch size of the latent
MaxLatent == 2     \* largest latent dimension
MaxMu == 1         \* entries of mu range over -MaxMu..MaxMu
MaxLogVar == 1     \* entries of logvar range over 0..MaxLogVar, in units of ln 2

(* ------------------------- configuration ------------------------------- *)
\* obs_config.modalities.obs.rgb / low_dim and observation_hand...low_dim:
\* the key lists the wrapper copies at construction, for a configuration
\* with a front and a wrist camera.
camera_keys == <<"front_img_1", "right_wrist_img">>
proprio_keys == <<"joint_positions">>
proprio_keys_hand == <<"ee_pose">>

ObsKeyUniverse == {"front_img_1", "right_wrist_img", "joint_positions", "ee_pose"}

Range(s) == {s[i] : i \in 1..Len(s)}

VARIABLES
    variant,          \* "ACT" or "ACTSP": the class of the algo object
    chunk_size,       \* self.chunk_size
    query_frequency,  \* self.query_frequency
    training,         \* self.nets.training
    step_counter,     \* self._step_counter
    a_hat_store,      \* self.a_hat_store
    invocations,      \* number of calls of self.nets["policy"] so far
    calls,            \* number of get_action calls so far
    policy_call,      \* arguments of the latest call of self.nets["policy"]
    lastOp,           \* the latest rollout operation and its outcome
    since_reset,      \* get_action calls returned since the latest reset()
    batch,            \* the batch dict the forward passes are given
    fwd,              \* the latest forward pass and its outcome
    loss,             \* the tensors and the result of the L1 loss computation
    train,            \* the latent, the KL terms and the losses of a training step
    adapt,            \* a raw loader batch and what the batch adapter made of it
    norm,             \* an array element, its range, and its normalisations
    metrics,          \* the arrays given to add_metrics and the metrics dict
    harness           \* the evaluation loop: loader position, video buffer, files

vars == <<variant, chunk_size, query_frequency, training, step_counter,
          a_hat_store, invocations, calls, policy_call, lastOp, since_reset,
          batch, fwd, loss, train, adapt, norm, metrics, harness>>

\* the variables of the computations outside the algo object's passes
aux == <<train, adapt, norm, metrics, harness>>
\* the variables of the algo object and of its forward passes
core == <<variant, chunk_size, query_frequency, training, step_counter,
          a_hat_store, invocations, calls, policy_call, lastOp, since_reset,
          batch, fwd, loss>>

(* ------------------------- symbolic tensors ---------------------------- *)
\* None, as the value of self.a_hat_store after construction.
NoChunk == [src |-> "None", inv |-> 0, T |-> 0]
\* The chunk a_hat returned by invocation number n of the policy network:
\* num_queries = train.seq_length timesteps.
PolicyOutput(n, T) == [src |-> "policy", inv |-> n, T |-> T]
\* a_hat_store[:, idx, :]
NoAction == [inv |-> 0, t |-> 0 - 1]
TimeSlice(chunk, idx) == [inv |-> chunk.inv, t |-> idx]

\* A tensor of a batch or of the policy output, by origin and by the list
\* of components its last axis holds.
NoTensor == [present |-> FALSE, src |-> "None", dims |-> <<>>]
BatchActions(adim) == [present |-> TRUE, src |-> "batch", dims |-> [i \in 1..adim |-> i]]
NoCall == [caller |-> "none", qpos |-> <<>>, images |-> <<>>,
           modality |-> "absent", actions |-> NoTensor, is_pad |-> <<>>,
           has_is_pad |-> FALSE]

\* image = self.normalize(image) for every camera of get_action
NormalizedImages(cams) == [i \in 1..Len(cams) |-> [cam |-> cams[i], ops |-> <<"normalize">>]]

(* --------------------------- construction ------------------------------ *)
NoBatch == [type |-> <<>>, obs |-> {}, actions |-> NoTensor, pad_mask |-> <<>>]
NoPredictions == [actions |-> NoTensor, losses |-> FALSE]
\* a number (rat + ln2 * ln 2) / den; logvar is counted in units of ln 2, so
\* that exp(logvar) is a power of two and every KL term is exact
Num(rat, ln2, den) == [rat |-> rat, ln2 |-> ln2, den |-> den]
Zero == Num(0, 0, 1)
NoKL == [total |-> <<>>, dimension_wise |-> <<>>, mean |-> <<>>]
NoLosses == [recons_loss |-> Zero, kl_loss |-> Zero, action_loss |-> Zero]
NoTrain == [stage |-> "none", mu |-> <<>>, logvar |-> <<>>, ndim |-> 2,
            kl_weight |-> 0, recons |-> Zero, kl |-> NoKL,
            predictions |-> [kl_loss |-> Zero, reconstruction_loss |-> Zero],
            losses |-> NoLosses]
\* a tensor as far as the adapter sees it: its dtype and its content
Tensor(dtype, val) == [dtype |-> dtype, val |-> val]
None == Tensor("None", <<>>)
NoAdapt == [stage |-> "none", ac_key |-> "none",
            raw |-> [obs |-> <<>>, goal_obs |-> None, type |-> None,
                     ac_keys |-> {}],
            out |-> [obs |-> <<>>, goal_obs |-> None, type |-> None,
                     has_actions |-> FALSE, actions |-> None]]
\* the rational number n / d, and the idle state of the range utilities
Frac(n, d) == [num |-> n, den |-> d]
NoNorm == [stage |-> "none", x |-> Frac(0, 1), lo |-> 0, hi |-> 0,
           y |-> Frac(0, 1), args |-> <<>>, back |-> Frac(0, 1)]
NoMetrics == [stage |-> "none", actions |-> <<>>, pred_values |-> <<>>,
              prior |-> 0, paired_mse |-> <<>>, final_mse |-> <<>>]
NoHarness == [stage |-> "none", type |-> "None", has_max |-> FALSE,
              max_samples |-> 0, B |-> 0, i |-> 0, b |-> 0, count |-> 0,
              vids_written |-> 0, video |-> <<>>, files |-> <<>>,
              produced |-> 0, evaluated |-> 0, forward_evals |-> 0]
AuxIdle ==
    /\ train = NoTrain
    /\ adapt = NoAdapt
    /\ norm = NoNorm
    /\ metrics = NoMetrics
    /\ harness = NoHarness

NoLoss == [done |-> FALSE, actions |-> <<>>, is_pad |-> <<>>, a_hat |-> <<>>,
           l1 |-> [num |-> 0, den |-> 1]]
NoForward == [op |-> "none", status |-> "none", modality |-> "none",
              cam_keys |-> <<>>, proprio_keys |-> <<>>, invoked |-> FALSE,
              actions_in |-> NoTensor, predictions |-> NoPredictions]
NoOp == [op |-> "none", after |-> "none", status |-> "none",
         counter_before |-> 0, action |-> NoAction, obs |-> {}]

InitObject ==
    /\ variant \in {"ACT", "ACTSP"}
    /\ chunk_size \in 1..MaxChunk
    /\ query_frequency = chunk_size
    /\ step_counter = 0
    /\ a_hat_store = NoChunk
    /\ invocations = 0
    /\ calls = 0
    /\ policy_call = NoCall
    /\ lastOp = NoOp
    /\ since_reset = 0
    /\ fwd = NoForward

(* ------------------------------ rollout -------------------------------- *)
\* a variant that queries the policy on the first step only
NeedsQuery_FirstOnly(counter, qf) == counter = 0

\* if self._step_counter % self.query_frequency == 0
NeedsQuery(counter, qf) == counter % qf = 0

\* a variant that reads the chunk one step ahead
ChunkIndex_Shifted(counter, qf) == (counter + 1) % qf

\* self._step_counter % self.query_frequency
ChunkIndex(counter, qf) == counter % qf

\* variants of reset(): one that leaves the counter, one that drops the chunk
ResetState_KeepCounter(counter, store) == [counter |-> counter, store |-> store]
ResetState_ClearStore(counter, store) == [counter |-> 0, store |-> NoChunk]

\* a variant that restarts the counter at 1
ResetState_StepOne(counter, store) == [counter |-> 1, store |-> store]

\* the state reset() leaves behind
ResetState(counter, store) == [counter |-> 0, store |-> store]

Outcome(status, before, action, obs) ==
    [op |-> "get_action", after |-> lastOp.op, status |-> status,
     counter_before |-> before, action |-> action, obs |-> obs]

GetAction(obs) ==
    /\ calls < MaxCalls
    /\ calls' = calls + 1
    /\ UNCHANGED <<variant, chunk_size, query_frequency, training, batch, fwd,
                   loss>>
    /\ UNCHANGED aux
    /\ IF training
       THEN \* assert not self.nets.training
            /\ lastOp' = Outcome("AssertionError", step_counter, NoAction, obs)
            /\ UNCHANGED <<step_counter, a_hat_store, invocations, policy_call,
                           since_reset>>
       ELSE IF ~ ((Range(proprio_keys) \cup Range(camera_keys)) \subseteq obs)
       THEN \* obs_dict[k] of a key the observation lacks
            /\ lastOp' = Outcome("KeyError", step_counter, NoAction, obs)
            /\ UNCHANGED <<step_counter, a_hat_store, invocations, policy_call,
                           since_reset>>
       ELSE LET query == NeedsQuery(step_counter, query_frequency)
                a_hat == PolicyOutput(invocations + 1, chunk_size)
                store == IF query THEN a_hat ELSE a_hat_store
                idx   == ChunkIndex(step_counter, query_frequency)
            IN  /\ invocations' = IF query THEN invocations + 1 ELSE invocations
                /\ policy_call' =
                       IF query
                       THEN [caller |-> "get_action", qpos |-> proprio_keys,
                             images |-> NormalizedImages(camera_keys),
                             modality |-> "absent", actions |-> NoTensor,
                             is_pad |-> <<>>, has_is_pad |-> FALSE]
                       ELSE policy_call
                /\ a_hat_store' = store
                /\ IF store.src = "None"
                   THEN \* None is not subscriptable
                        /\ lastOp' = Outcome("TypeError", step_counter, NoAction, obs)
                        /\ UNCHANGED <<step_counter, since_reset>>
                   ELSE IF idx >= store.T
                   THEN /\ lastOp' = Outcome("IndexError", step_counter, NoAction, obs)
                        /\ UNCHANGED <<step_counter, since_reset>>
                   ELSE /\ lastOp' = Outcome("ok", step_counter, TimeSlice(store, idx), obs)
                        /\ step_counter' = step_counter + 1
                        /\ since_reset' = since_reset + 1

Reset ==
    /\ step_counter' = ResetState(step_counter, a_hat_store).counter
    /\ a_hat_store' = ResetState(step_counter, a_hat_store).store
    /\ lastOp' = [op |-> "reset", after |-> lastOp.op, status |-> "ok",
                  counter_before |-> step_counter, action |-> NoAction, obs |-> {}]
    /\ since_reset' = 0
    /\ UNCHANGED <<variant, chunk_size, query_frequency, training,
                   invocations, calls, policy_call, batch, fwd, loss>>
    /\ UNCHANGED aux

RolloutObs == {Range(proprio_keys) \cup Range(camera_keys), {"front_img_1", "ee_pose"}}

InitRollout ==
    /\ InitObject
    /\ AuxIdle
    /\ batch = NoBatch
    /\ loss = NoLoss
    /\ training \in BOOLEAN

NextRollout ==
    \/ \E obs \in RolloutObs : GetAction(obs)
    \/ Reset

SpecRollout == InitRollout /\ [][NextRollout]_vars

(* --------------------------- forward passes ---------------------------- *)
Min(a, b) == IF a < b THEN a ELSE b

\* (batch["type"] == v).all()
AllEqual(type, v) == \A i \in 1..Len(type) : type[i] = v

\* a variant that takes every batch that is not all 0 for hand data
ModalityCheck_Lenient(type) == IF AllEqual(type, 0) THEN "robot" ELSE "hand"

\* a variant that tests for hand data first
ModalityCheck_HandFirst(type) ==
    IF AllEqual(type, 1) THEN "hand"
    ELSE IF AllEqual(type, 0) THEN "robot"
    ELSE "ValueError"

\* ACT._modality_check; "ValueError" stands for the raise
ModalityCheck(type) ==
    IF AllEqual(type, 0) THEN "robot"
    ELSE IF AllEqual(type, 1) THEN "hand"
    ELSE "ValueError"

\* a variant that leaves the hand actions at full width
TruncateXYZ_Skipped(actions) == actions

\* batch["actions"][:, :, :3]
TruncateXYZ(actions) == [actions EXCEPT !.dims = SubSeq(@, 1, Min(3, Len(@)))]

\* a variant that selects the first camera for every modality
CamKeys_FirstOnly(modality) == SubSeq(camera_keys, 1, Min(1, Len(camera_keys)))

\* cam_keys = self.camera_keys if modality == "robot" else self.camera_keys[:1]
CamKeys(modality) ==
    IF modality = "robot" THEN camera_keys
    ELSE SubSeq(camera_keys, 1, Min(1, Len(camera_keys)))

\* proprio_keys = self.proprio_keys_hand if modality == "hand" else self.proprio_keys
ProprioKeys(modality) ==
    IF modality = "hand" THEN proprio_keys_hand ELSE proprio_keys

\* a variant that keeps the modality the type tag resolved to
EvalModality_FromTag(checked, obs) == checked

\* the modality forward_eval of ACTSP goes on with, given the checked one
EvalModality(checked, obs) ==
    IF "right_wrist_img" \in obs THEN "robot" ELSE "hand"

\* image = self.color_jitter(image); image = self.normalize(image)
JitteredImages(cams) ==
    [i \in 1..Len(cams) |-> [cam |-> cams[i], ops |-> <<"color_jitter", "normalize">>]]

\* is_pad = batch['obs']['pad_mask'] == 0
IsPad(pad_mask) == [t \in 1..Len(pad_mask) |-> pad_mask[t] = 0]

\* a variant without the assertion on the time extent of is_pad
RobomimicToActData_NoAssert(b, cam_keys, pkeys) ==
    LET data(status) == [status |-> status, qpos |-> pkeys,
                         images |-> [i \in 1..Len(cam_keys) |->
                                        [cam |-> cam_keys[i],
                                         ops |-> <<"color_jitter", "normalize">>]],
                         actions |-> b.actions,
                         is_pad |-> [t \in 1..Len(b.pad_mask) |-> b.pad_mask[t] = 0]]
    IN  IF ~ (Range(pkeys) \subseteq b.obs) THEN data("KeyError")
        ELSE IF ~ (Range(cam_keys) \subseteq b.obs) THEN data("KeyError")
        ELSE IF ~ b.actions.present THEN data("KeyError")
        ELSE data("ok")

\* ACT._robomimic_to_act_data on a batch b
RobomimicToActData(b, cam_keys, pkeys) ==
    LET data(status) == [status |-> status, qpos |-> pkeys,
                         images |-> JitteredImages(cam_keys),
                         actions |-> b.actions, is_pad |-> IsPad(b.pad_mask)]
    IN  IF ~ (Range(pkeys) \subseteq b.obs) THEN data("KeyError")
        ELSE IF ~ (Range(cam_keys) \subseteq b.obs) THEN data("KeyError")
        ELSE IF ~ b.actions.present THEN data("KeyError")
        ELSE IF Len(b.pad_mask) # chunk_size THEN data("AssertionError")
        ELSE data("ok")

\* The predicted chunk of a forward pass: the policy's output, with the
\* last axis of the action head the pass addresses.
PredictedChunk(actions) == [present |-> TRUE, src |-> "policy", dims |-> actions.dims]

\* The call self.nets["policy"](qpos, images, env_state, [modality,]
\* actions=..., is_pad=is_pad)
PolicyCall(caller, data, modality, actions) ==
    [caller |-> caller, qpos |-> data.qpos, images |-> data.images,
     modality |-> modality, actions |-> actions, is_pad |-> data.is_pad,
     has_is_pad |-> TRUE]

\* kl_divergence: assert batch_size != 0
KLStatus(B) == IF B = 0 THEN "AssertionError" ELSE "ok"

\* What a forward pass leaves behind when it raises before the policy call.
Raised(op, status, modality, cam_keys, pkeys) ==
    /\ fwd' = [op |-> op, status |-> status, modality |-> modality,
               cam_keys |-> cam_keys, proprio_keys |-> pkeys,
               invoked |-> FALSE, actions_in |-> batch.actions,
               predictions |-> NoPredictions]
    /\ UNCHANGED <<invocations, policy_call>>

\* The tail shared by the four forward passes, from the batch-to-model
\* projection on: projection, policy call, losses (training), predictions.
\* b is the batch as the pass has left it so far.
Project(op, b, is_train, modality, call_modality, cam_keys, pkeys) ==
    LET data == RobomimicToActData(b, cam_keys, pkeys)
        kl   == IF is_train THEN KLStatus(Len(b.type)) ELSE "ok"
    IN  IF data.status # "ok"
        THEN Raised(op, data.status, modality, cam_keys, pkeys)
        ELSE /\ invocations' = invocations + 1
             /\ policy_call' = PolicyCall(op, data, call_modality,
                                          IF is_train THEN data.actions ELSE NoTensor)
             /\ fwd' = [op |-> op, status |-> kl, modality |-> modality,
                        cam_keys |-> cam_keys, proprio_keys |-> pkeys,
                        invoked |-> TRUE, actions_in |-> batch.actions,
                        predictions |->
                            IF kl # "ok" THEN NoPredictions
                            ELSE IF is_train
                            THEN [actions |-> data.actions, losses |-> TRUE]
                            ELSE [actions |-> PredictedChunk(data.actions),
                                  losses |-> FALSE]]

\* ACT._forward_training and ACT.forward_eval
ACTForward(op, is_train) ==
    /\ Project(op, batch, is_train, "none", "absent", camera_keys, proprio_keys)
    /\ UNCHANGED batch

\* ACTSP._forward_training and ACTSP.forward_eval
ACTSPForward(op, is_train) ==
    LET checked == ModalityCheck(batch.type)
        modality == IF is_train THEN checked ELSE EvalModality(checked, batch.obs)
    IN  IF checked = "ValueError"
        THEN /\ Raised(op, "ValueError", "none", <<>>, <<>>)
             /\ UNCHANGED batch
        ELSE IF modality = "hand" /\ ~ batch.actions.present
        THEN /\ Raised(op, "KeyError", modality, <<>>, <<>>)
             /\ UNCHANGED batch
        ELSE LET b == IF modality = "hand"
                      THEN [batch EXCEPT !.actions = TruncateXYZ(@)]
                      ELSE batch
             IN  /\ batch' = b
                 /\ Project(op, b, is_train, modality, modality,
                            CamKeys(modality), ProprioKeys(modality))

\* the class of the object decides which pair of passes runs
Dispatch(op, is_train) ==
    IF variant = "ACTSP" THEN ACTSPForward(op, is_train)
    ELSE ACTForward(op, is_train)

ForwardTraining ==
    /\ invocations < MaxForward
    /\ Dispatch("_forward_training", TRUE)
    /\ UNCHANGED <<variant, chunk_size, query_frequency, training, step_counter,
                   a_hat_store, calls, lastOp, since_reset, loss>>
    /\ UNCHANGED aux

ForwardEval ==
    /\ invocations < MaxForward
    /\ Dispatch("forward_eval", FALSE)
    /\ UNCHANGED <<variant, chunk_size, query_frequency, training, step_counter,
                   a_hat_store, calls, lastOp, since_reset, loss>>
    /\ UNCHANGED aux

\* the batches process_batch_for_training hands to the forward passes
TypeValues == {0, 1, 2}
SeqsUpTo(S, n) == UNION {[1..k -> S] : k \in 0..n}
ObsKeySets == {Range(proprio_keys) \cup Range(camera_keys),
               Range(proprio_keys_hand) \cup {camera_keys[1]},
               ObsKeyUniverse,
               {camera_keys[1]}}
Batches ==
    [type : SeqsUpTo(TypeValues, MaxB),
     obs : ObsKeySets,
     actions : {NoTensor} \cup {BatchActions(d) : d \in 2..MaxADim},
     pad_mask : SeqsUpTo({0, 1}, MaxChunk) \ {<<>>}]

InitForward ==
    /\ InitObject
    /\ AuxIdle
    /\ training = TRUE
    /\ batch \in Batches
    /\ loss = NoLoss

NextForward ==
    \/ ForwardTraining
    \/ ForwardEval

SpecForward == InitForward /\ [][NextForward]_vars

(* ------------------------- reconstruction loss ------------------------- *)
\* The training step on concrete numbers: tensors are functions
\* [1..B -> [1..T -> [1..D -> value]]], is_pad is [1..B -> [1..T -> BOOLEAN]],
\* and a mean is the exact fraction num / den.
Abs(x) == IF x < 0 THEN 0 - x ELSE x

RECURSIVE SumTo(_, _)
SumTo(f, n) == IF n = 0 THEN 0 ELSE f[n] + SumTo(f, n - 1)

Tensors(B, T, D) == [1..B -> [1..T -> [1..D -> 0..MaxVal]]]
PadIndicators(B, T) == [1..B -> [1..T -> BOOLEAN]]

\* F.l1_loss(actions, a_hat, reduction='none')
AllL1(actions, a_hat) ==
    [b \in DOMAIN actions |-> [t \in DOMAIN actions[b] |->
        [d \in DOMAIN actions[b][t] |-> Abs(actions[b][t][d] - a_hat[b][t][d])]]]

\* all_l1 * ~is_pad.unsqueeze(-1)
MaskPadded(all_l1, is_pad) ==
    [b \in DOMAIN all_l1 |-> [t \in DOMAIN all_l1[b] |->
        [d \in DOMAIN all_l1[b][t] |->
            all_l1[b][t][d] * (IF ~ is_pad[b][t] THEN 1 ELSE 0)]]]

\* tensor.mean(): the sum of all elements over the number of all elements
Mean(x) ==
    LET B == Len(x)
        T == Len(x[1])
        D == Len(x[1][1])
    IN  [num |-> SumTo([b \in 1..B |-> SumTo([t \in 1..T |-> SumTo(x[b][t], D)], T)], B),
         den |-> B * T * D]

\* l1 = (all_l1 * ~is_pad.unsqueeze(-1)).mean()
L1Loss(actions, a_hat, is_pad) == Mean(MaskPadded(AllL1(actions, a_hat), is_pad))

\* The loss lines of the training step, for the chunk a_hat the policy
\* returns on this batch.
ComputeL1 ==
    /\ ~ loss.done
    /\ \E a_hat \in Tensors(Len(loss.actions), Len(loss.actions[1]),
                            Len(loss.actions[1][1])) :
           loss' = [loss EXCEPT !.done = TRUE, !.a_hat = a_hat,
                                !.l1 = L1Loss(loss.actions, a_hat, loss.is_pad)]
    /\ UNCHANGED <<variant, chunk_size, query_frequency, training, step_counter,
                   a_hat_store, invocations, calls, policy_call, lastOp,
                   since_reset, batch, fwd>>
    /\ UNCHANGED aux

InitLoss ==
    /\ InitObject
    /\ AuxIdle
    /\ training = TRUE
    /\ batch = NoBatch
    /\ chunk_size <= MaxLossT
    /\ \E B \in 1..MaxLossB, D \in 1..MaxLossD :
          \E actions \in Tensors(B, chunk_size, D), is_pad \in PadIndicators(B, chunk_size) :
             loss = [done |-> FALSE, actions |-> actions, is_pad |-> is_pad,
                     a_hat |-> <<>>, l1 |-> [num |-> 0, den |-> 1]]

NextLoss == ComputeL1

SpecLoss == InitLoss /\ [][NextLoss]_vars

(* ------------------------ KL and total loss ---------------------------- *)
RECURSIVE Pow2(_)
Pow2(k) == IF k = 0 THEN 1 ELSE 2 * Pow2(k - 1)

\* sum of numbers over a common denominator
RECURSIVE SumNums(_, _)
SumNums(f, n) ==
    IF n = 0 THEN Num(0, 0, 1)
    ELSE LET r == SumNums(f, n - 1)
         IN  Num(f[n].rat + r.rat, f[n].ln2 + r.ln2, f[n].den)

Plus(x, y) == Num(x.rat * y.den + y.rat * x.den, x.ln2 * y.den + y.ln2 * x.den,
                  x.den * y.den)
Times(w, x) == Num(w * x.rat, w * x.ln2, x.den)
DividedBy(x, n) == Num(x.rat, x.ln2, x.den * n)

\* a variant that drops the "1 +" of the KL term
KLTerm_NoOne(mu, logvar) == Num(mu * mu + Pow2(logvar), 0 - logvar, 2)

\* -0.5 * (1 + logvar - mu.pow(2) - logvar.exp()), for logvar * ln 2
KLTerm(mu, logvar) == Num(mu * mu + Pow2(logvar) - 1, 0 - logvar, 2)

\* ACT.kl_divergence on mu, logvar of shape [B, D] (a 4-dimensional
\* [B, D, 1, 1] latent is viewed as [B, D] first): the three returned
\* quantities, total_kld and mean_kld being one-element tensors.
KlDivergence(mu, logvar) ==
    LET B == Len(mu)
        D == Len(mu[1])
        klds == [b \in 1..B |-> [d \in 1..D |-> KLTerm(mu[b][d], logvar[b][d])]]
        sum1 == [b \in 1..B |-> SumNums(klds[b], D)]
        mean1 == [b \in 1..B |-> DividedBy(SumNums(klds[b], D), D)]
    IN  [total |-> <<DividedBy(SumNums(sum1, B), B)>>,
         dimension_wise |->
             [d \in 1..D |-> DividedBy(SumNums([b \in 1..B |-> klds[b][d]], B), B)],
         mean |-> <<DividedBy(SumNums(mean1, B), B)>>]

\* a variant that adds the KL loss unweighted
ActionLoss_Unweighted(recons_loss, kl_loss, kl_weight) == Plus(recons_loss, kl_loss)

\* action_loss = recons_loss + self.kl_weight * kl_loss
ActionLoss(recons_loss, kl_loss, kl_weight) ==
    Plus(recons_loss, Times(kl_weight, kl_loss))

TrainUntouched == UNCHANGED <<core, adapt, norm, metrics, harness>>

\* The loss lines of _forward_training: kl_divergence on the latent the
\* policy returned, loss_dict['kl'] = total_kld[0], and the predictions.
LatentLoss ==
    /\ train.stage = "latent"
    /\ IF Len(train.mu) = 0
       THEN \* assert batch_size != 0
            train' = [train EXCEPT !.stage = "AssertionError"]
       ELSE LET kl == KlDivergence(train.mu, train.logvar)
            IN  train' = [train EXCEPT
                            !.stage = "predictions",
                            !.kl = kl,
                            !.predictions = [kl_loss |-> kl.total[1],
                                             reconstruction_loss |-> train.recons]]
    /\ TrainUntouched

\* ACT._compute_losses
ComputeLosses ==
    /\ train.stage = "predictions"
    /\ LET kl_loss == train.predictions.kl_loss
           recons_loss == train.predictions.reconstruction_loss
       IN  train' = [train EXCEPT
                       !.stage = "losses",
                       !.losses = [recons_loss |-> recons_loss,
                                   kl_loss |-> kl_loss,
                                   action_loss |-> ActionLoss(recons_loss, kl_loss,
                                                              train.kl_weight)]]
    /\ TrainUntouched

\* algo_config.act.kl_weight, and the L1 losses a training step feeds in
KLWeights == {1, 10}
ReconsValues == {Num(1, 0, 2), Num(3, 0, 1)}

Latents(B, D, S) == [1..B -> [1..D -> S]]
\* the largest number of components B x D of a latent that is drawn
MaxCells == 4

\* ACTSP inherits kl_divergence and _compute_losses unchanged
InitTrain ==
    /\ InitObject
    /\ variant = "ACT"
    /\ chunk_size = 1
    /\ training = TRUE
    /\ batch = NoBatch
    /\ loss = NoLoss
    /\ adapt = NoAdapt /\ norm = NoNorm /\ metrics = NoMetrics
    /\ harness = NoHarness
    /\ \E B \in 0..MaxKLB, D \in 1..MaxLatent :
          /\ B * D <= MaxCells
          /\ \E mu \in Latents(B, D, (0 - MaxMu)..MaxMu),
                logvar \in Latents(B, D, 0..MaxLogVar),
                ndim \in {2, 4}, w \in KLWeights, recons \in ReconsValues :
                train = [NoTrain EXCEPT !.stage = "latent", !.mu = mu,
                                        !.logvar = logvar, !.ndim = ndim,
                                        !.kl_weight = w, !.recons = recons]

NextTrain ==
    \/ LatentLoss
    \/ ComputeLosses

SpecTrain == InitTrain /\ [][NextTrain]_vars

(* --------------------------- batch adapter ----------------------------- *)
MaxAdaptT == 2
MaxAdaptB == 2

\* keys a loader batch can carry under "obs", and the action keys of a batch
AdaptObsKeys == {"front_img_1", "joint_positions", "pad_mask", "type"}
AcKeys == {"actions_joints", "actions_xyz"}

\* batch["obs"][k] of time extent T: the content at time index t - 1 is
\* the pair <<k, t - 1>>; the padding mask holds its 0/1 entries
RawEntry(k, T, pad) ==
    IF k = "pad_mask" THEN Tensor("int64", pad)
    ELSE Tensor(IF k = "front_img_1" THEN "uint8" ELSE "float64",
                [t \in 1..T |-> <<k, t - 1>>])

\* a slice that takes the last time index
FirstTimeIndex_Last(x) == Tensor(x.dtype, x.val[Len(x.val)])

\* x[:, 0, :]
FirstTimeIndex(x) == Tensor(x.dtype, x.val[1])

\* TensorUtils.to_float(TensorUtils.to_device(x, self.device)): every tensor
\* becomes a float tensor of the same content, None stays None
ToFloat(x) == IF x.dtype = "None" THEN x ELSE Tensor("float32", x.val)

\* ACT.process_batch_for_training(batch, ac_key)
ProcessBatchForTraining ==
    /\ adapt.stage = "raw"
    /\ LET raw == adapt.raw
           kept == DOMAIN raw.obs \ {"pad_mask", "type"}
           obs == [k \in kept \cup {"pad_mask"} |->
                      IF k = "pad_mask" THEN raw.obs["pad_mask"]
                      ELSE FirstTimeIndex(raw.obs[k])]
           has_actions == adapt.ac_key \in raw.ac_keys
           input_batch ==
               [obs |-> [k \in DOMAIN obs |-> ToFloat(obs[k])],
                goal_obs |-> ToFloat(raw.goal_obs),
                type |-> ToFloat(raw.type),
                has_actions |-> has_actions,
                actions |-> IF has_actions
                            THEN ToFloat(Tensor("float64", <<"batch", adapt.ac_key>>))
                            ELSE None]
       IN  IF "pad_mask" \notin DOMAIN raw.obs
           THEN adapt' = [adapt EXCEPT !.stage = "KeyError"]
           ELSE adapt' = [adapt EXCEPT !.stage = "ok", !.out = input_batch]
    /\ UNCHANGED <<core, train, norm, metrics, harness>>

InitAdapter ==
    /\ InitObject
    /\ training = TRUE
    /\ batch = NoBatch
    /\ loss = NoLoss
    /\ train = NoTrain /\ norm = NoNorm /\ metrics = NoMetrics
    /\ harness = NoHarness
    /\ \E ks \in SUBSET AdaptObsKeys, T \in 1..MaxAdaptT, B \in 1..MaxAdaptB :
          \E pad \in [1..T -> {0, 1}], type \in [1..B -> {0, 1}],
             goal \in BOOLEAN, acs \in SUBSET AcKeys, ac_key \in AcKeys :
             adapt = [NoAdapt EXCEPT
                        !.stage = "raw",
                        !.ac_key = ac_key,
                        !.raw = [obs |-> [k \in ks |-> RawEntry(k, T, pad)],
                                 goal_obs |-> IF goal
                                              THEN Tensor("uint8", <<"goal_obs">>)
                                              ELSE None,
                                 type |-> Tensor("int64", type),
                                 ac_keys |-> acs]]

NextAdapter == ProcessBatchForTraining

SpecAdapter == InitAdapter /\ [][NextAdapter]_vars

(* ------------------------- range normalisation ------------------------- *)
MaxRange == 2
MaxDen == 2

RECURSIVE Gcd(_, _)
Gcd(a, b) == IF b = 0 THEN a ELSE Gcd(b, a % b)

\* n / d in lowest terms with a positive denominator (d # 0)
Q(n, d) ==
    LET g == Gcd(Abs(n), Abs(d))
        sgn == IF d < 0 THEN 0 - 1 ELSE 1
    IN  Frac((sgn * n) \div g, (sgn * d) \div g)

QInt(n) == Frac(n, 1)
QAdd(a, b) == Q(a.num * b.den + b.num * a.den, a.den * b.den)
QSub(a, b) == Q(a.num * b.den - b.num * a.den, a.den * b.den)
QMul(a, b) == Q(a.num * b.num, a.den * b.den)
QDiv(a, b) == Q(a.num * b.den, a.den * b.num)

\* general_norm(array, min_val, max_val, arr_min, arr_max) on one element
GeneralNorm(array, min_val, max_val, arr_min, arr_max) ==
    QAdd(QMul(QSub(max_val, min_val),
              QDiv(QSub(array, arr_min), QSub(arr_max, arr_min))),
         min_val)

\* an inverse that forgets the offset of the original range
GeneralUnnorm_NoOffset(array, orig_min, orig_max, min_val, max_val) ==
    QMul(QDiv(QSub(array, min_val), QSub(max_val, min_val)),
         QSub(orig_max, orig_min))

\* general_unnorm(array, orig_min, orig_max, min_val, max_val) on one element
GeneralUnnorm(array, orig_min, orig_max, min_val, max_val) ==
    QAdd(QMul(QDiv(QSub(array, min_val), QSub(max_val, min_val)),
              QSub(orig_max, orig_min)),
         orig_min)

NormUntouched == UNCHANGED <<core, train, adapt, metrics, harness>>

\* y = general_norm(x, -1, 1, lo, hi)
Normalize ==
    /\ norm.stage = "raw"
    /\ norm' = [norm EXCEPT
                  !.stage = "normed",
                  !.y = GeneralNorm(norm.x, QInt(0 - 1), QInt(1),
                                    QInt(norm.lo), QInt(norm.hi))]
    /\ NormUntouched

\* the four range arguments general_unnorm is called with: the data range
\* first (as the evaluation script calls it), or the target range first
UnnormArgs(lo, hi) == {<<lo, hi, 0 - 1, 1>>, <<0 - 1, 1, lo, hi>>}

\* back = general_unnorm(y, a, b, c, d)
Unnormalize ==
    /\ norm.stage = "normed"
    /\ \E args \in UnnormArgs(norm.lo, norm.hi) :
          norm' = [norm EXCEPT
                     !.stage = "unnormed",
                     !.args = args,
                     !.back = GeneralUnnorm(norm.y, QInt(args[1]), QInt(args[2]),
                                            QInt(args[3]), QInt(args[4]))]
    /\ NormUntouched

InitNorm ==
    /\ InitObject
    /\ variant = "ACT"
    /\ chunk_size = 1
    /\ training = TRUE
    /\ batch = NoBatch
    /\ loss = NoLoss
    /\ train = NoTrain /\ adapt = NoAdapt /\ metrics = NoMetrics
    /\ harness = NoHarness
    /\ \E lo \in (0 - MaxRange)..MaxRange, hi \in (0 - MaxRange)..MaxRange,
          d \in 1..MaxDen :
          /\ lo < hi
          /\ \E n \in (lo * d)..(hi * d) :
                norm = [NoNorm EXCEPT !.stage = "raw", !.x = Q(n, d),
                                      !.lo = lo, !.hi = hi]

NextNorm ==
    \/ Normalize
    \/ Unnormalize

SpecNorm == InitNorm /\ [][NextNorm]_vars

(* ------------------------------ metrics -------------------------------- *)
MaxSteps == 2
MaxCoord == 1
MaxPrior == 1
\* the arrays given to add_metrics have 3 axes
Axes == 3

RECURSIVE SumSquares(_, _, _, _)
\* a square that forgets the factor 100
ScaledSquare_Unscaled(e) == e * e

\* np.square(e * 100)
ScaledSquare(e) == (e * 100) * (e * 100)

\* sum over the steps 1..t of np.square((pred_values - actions) * 100) on axis j
SumSquares(pred_values, actions, j, t) ==
    IF t = 0 THEN 0
    ELSE ScaledSquare(pred_values[t][j] - actions[t][j])
         + SumSquares(pred_values, actions, j, t - 1)

\* np.mean(np.square((pred_values - actions) * 100), axis=0)
PairedMse(pred_values, actions) ==
    [j \in 1..Axes |->
        Q(SumSquares(pred_values, actions, j, Len(actions)), Len(actions))]

\* np.square((pred_values[-1] - actions[-1]) * 100)
FinalMse(pred_values, actions) ==
    [j \in 1..Axes |->
        QInt(ScaledSquare(pred_values[Len(pred_values)][j]
                          - actions[Len(actions)][j]))]

\* add_metrics(metrics, actions, pred_values)
AddMetrics ==
    /\ metrics.stage = "ready"
    /\ metrics' = [metrics EXCEPT
                     !.stage = "added",
                     !.paired_mse = Append(metrics.paired_mse,
                                           PairedMse(metrics.pred_values,
                                                     metrics.actions)),
                     !.final_mse = Append(metrics.final_mse,
                                          FinalMse(metrics.pred_values,
                                                   metrics.actions))]
    /\ UNCHANGED <<core, train, adapt, norm, harness>>

\* the entry an earlier trajectory with an exact prediction left in a list
EarlierEntry == [j \in 1..Axes |-> QInt(0)]
Arrays(T) == [1..T -> [1..Axes -> 0..MaxCoord]]
\* ground-truth trajectories: every step is at 0 or at 1 on all axes
GroundTruths(T) ==
    {[t \in 1..T |-> [j \in 1..Axes |-> g[t]]] : g \in [1..T -> {0, 1}]}

InitMetrics ==
    /\ InitObject
    /\ variant = "ACT"
    /\ chunk_size = 1
    /\ training = FALSE
    /\ batch = NoBatch
    /\ loss = NoLoss
    /\ train = NoTrain /\ adapt = NoAdapt /\ norm = NoNorm
    /\ harness = NoHarness
    /\ \E T \in 1..MaxSteps, k \in {0, MaxPrior} :
          \E actions \in GroundTruths(T), pred_values \in Arrays(T) :
             metrics = [NoMetrics EXCEPT
                          !.stage = "ready",
                          !.actions = actions,
                          !.pred_values = pred_values,
                          !.prior = k,
                          !.paired_mse = [i \in 1..k |-> EarlierEntry],
                          !.final_mse = [i \in 1..k |-> EarlierEntry]]

NextMetrics == AddMetrics

SpecMetrics == InitMetrics /\ [][NextMetrics]_vars

(* ------------------------- evaluation harness -------------------------- *)
MaxFrames == 1402
MaxBatchSize == 2
MaxSamplesArg == 3
\* T = 700 of evaluate_high_level_policy in val_utils
T_val_utils == 700

\* torch.zeros((T, 480, 640, 3)): slot k + 1 of the sequence is video[k];
\* a frame is named by its production number, 0 is the all-zero frame
EmptyVideo(T) == [k \in 1..T |-> 0]

\* a threshold one frame short of the buffer length
FlushDue_Early(count, T) == count = T - 1

\* a threshold one frame past the buffer length
FlushDue_Late(count, T) == count = T + 1

\* if count == T
FlushDue(count, T) == count = T

\* video[1:count]
VideoSlice(video, count) == SubSeq(video, 2, count)

\* torchvision.io.write_video(os.path.join(video_dir, f"{type}_{vids_written}.mp4"), video[1:count])
WriteVideo(h) ==
    Append(h.files, [name |-> <<h.type, h.vids_written>>,
                     frames |-> VideoSlice(h.video, h.count)])

HarnessUntouched ==
    UNCHANGED <<variant, chunk_size, query_frequency, step_counter, a_hat_store,
                invocations, calls, policy_call, lastOp, since_reset, batch,
                fwd, loss, train, adapt, norm, metrics>>

\* from the entry of evaluate_high_level_policy to the loop over the loader
StartHarness ==
    /\ harness.stage = "entry"
    /\ training' = FALSE
    /\ harness' = [harness EXCEPT !.stage = "loader", !.count = 0,
                                  !.vids_written = 0,
                                  !.video = EmptyVideo(T_val_utils)]
    /\ HarnessUntouched

\* the loader yields batch number i: the max_samples test, then the
\* adapter and forward_eval on the whole batch
NextBatch ==
    /\ harness.stage = "loader"
    /\ harness.produced + harness.B <= MaxFrames
    /\ IF harness.has_max /\ harness.i * harness.B > harness.max_samples
       THEN harness' = [harness EXCEPT !.stage = "done",
                                       !.files = WriteVideo(harness)]
       ELSE harness' = [harness EXCEPT !.stage = "batch", !.b = 0,
                                       !.forward_evals = @ + 1]
    /\ UNCHANGED training
    /\ HarnessUntouched

\* the loader is exhausted: the write after the loop
EndLoader ==
    /\ harness.stage = "loader"
    /\ harness' = [harness EXCEPT !.stage = "done",
                                  !.files = WriteVideo(harness)]
    /\ UNCHANGED training
    /\ HarnessUntouched

\* one pass of the loop over the samples b of a batch
ProcessSample ==
    /\ harness.stage = "batch"
    /\ IF variant = "ACTSP" /\ harness.type \notin {"robot", "hand"}
       THEN harness' = [harness EXCEPT !.stage = "ValueError"]
       ELSE LET frame == harness.produced + 1
                due == FlushDue(harness.count, T_val_utils)
                count == IF due THEN 0 ELSE harness.count
                video == IF due THEN EmptyVideo(T_val_utils) ELSE harness.video
                last == harness.b + 1 = harness.B
            IN  harness' = [harness EXCEPT
                              !.evaluated = @ + 1,
                              !.files = IF due THEN WriteVideo(harness) ELSE @,
                              !.vids_written = IF due THEN @ + 1 ELSE @,
                              !.video = [video EXCEPT ![count + 1] = frame],
                              !.count = count + 1,
                              !.produced = frame,
                              !.b = IF last THEN 0 ELSE @ + 1,
                              !.i = IF last THEN @ + 1 ELSE @,
                              !.stage = IF last THEN "loader" ELSE "batch"]
    /\ UNCHANGED training
    /\ HarnessUntouched

HarnessTypes == {"robot", "hand", "None"}

InitHarness ==
    /\ InitObject
    /\ chunk_size = 1
    /\ training = TRUE
    /\ batch = NoBatch
    /\ loss = NoLoss
    /\ train = NoTrain /\ adapt = NoAdapt /\ norm = NoNorm
    /\ metrics = NoMetrics
    /\ \E type \in HarnessTypes, B \in 1..MaxBatchSize,
          has_max \in BOOLEAN, max_samples \in 0..MaxSamplesArg :
          /\ (~ has_max) => max_samples = 0
          /\ harness = [NoHarness EXCEPT !.stage = "entry", !.type = type,
                                         !.B = B, !.has_max = has_max,
                                         !.max_samples = max_samples]

NextHarness ==
    \/ StartHarness
    \/ NextBatch
    \/ EndLoader
    \/ ProcessSample

SpecHarness == InitHarness /\ [][NextHarness]_vars

(* ------------------------- evaluation script --------------------------- *)
\* T = 400 of evaluate_high_level_policy in scripts/evaluation/eval.py
T_eval == 400
MaxEvalFrames == 802

\* model.set_eval() and the buffer set-up of the evaluation script
StartEvalScript ==
    /\ harness.stage = "eval_entry"
    /\ training' = FALSE
    /\ harness' = [harness EXCEPT !.stage = "eval_loader", !.count = 0,
                                  !.vids_written = 0,
                                  !.video = EmptyVideo(T_eval)]
    /\ HarnessUntouched

\* the loader of the evaluation script yields batch number i
EvalNextBatch ==
    /\ harness.stage = "eval_loader"
    /\ harness.produced + harness.B <= MaxEvalFrames
    /\ harness' = [harness EXCEPT !.stage = "eval_batch", !.b = 0]
    /\ UNCHANGED training
    /\ HarnessUntouched

\* the loader is exhausted: the function returns, nothing is written
EvalEndLoader ==
    /\ harness.stage = "eval_loader"
    /\ harness' = [harness EXCEPT !.stage = "eval_done"]
    /\ UNCHANGED training
    /\ HarnessUntouched

\* one pass of the sample loop of the evaluation script
EvalSample ==
    /\ harness.stage = "eval_batch"
    /\ LET frame == harness.produced + 1
           due == FlushDue(harness.count, T_eval)
           count == IF due THEN 0 ELSE harness.count
           video == IF due THEN EmptyVideo(T_eval) ELSE harness.video
           last == harness.b + 1 = harness.B
       IN  harness' = [harness EXCEPT
                         !.forward_evals = @ + 1,
                         !.files = IF due THEN WriteVideo(harness) ELSE @,
                         !.vids_written = IF due THEN @ + 1 ELSE @,
                         !.video = [video EXCEPT ![count + 1] = frame],
                         !.count = count + 1,
                         !.produced = frame,
                         !.b = IF last THEN 0 ELSE @ + 1,
                         !.i = IF last THEN @ + 1 ELSE @,
                         !.stage = IF last THEN "eval_loader" ELSE "eval_batch"]
    /\ UNCHANGED training
    /\ HarnessUntouched

InitEvalScript ==
    /\ InitObject
    /\ variant = "ACT"
    /\ chunk_size = 1
    /\ training = TRUE
    /\ batch = NoBatch
    /\ loss = NoLoss
    /\ train = NoTrain /\ adapt = NoAdapt /\ norm = NoNorm
    /\ metrics = NoMetrics
    /\ \E B \in 1..MaxBatchSize :
          harness = [NoHarness EXCEPT !.stage = "eval_entry",
                                      !.type = "hand_traj_v2", !.B = B]

NextEvalScript ==
    \/ StartEvalScript
    \/ EvalNextBatch
    \/ EvalEndLoader
    \/ EvalSample

\* the two evaluation loops side by side
InitLoops == InitHarness \/ InitEvalScript

NextLoops ==
    \/ StartHarness
    \/ NextBatch
    \/ EndLoader
    \/ ProcessSample
    \/ StartEvalScript
    \/ EvalNextBatch
    \/ EvalEndLoader
    \/ EvalSample

SpecLoops == InitLoops /\ [][NextLoops]_vars


(* ======================================================================= *)
(*                              Properties                                 *)
(* ======================================================================= *)
ReturnedStep == lastOp'.op = "get_action" /\ lastOp'.status = "ok" /\ calls' = calls + 1

\* C1: on every get_action call that returns, the policy is invoked exactly
\* when the step counter before the call is a multiple of query_frequency;
\* on every other call neither the cached chunk nor the policy's call record
\* changes, and the returned action comes from the chunk of the latest
\* invocation.
C1_QueryExactlyOnMultiples ==
    [][ReturnedStep =>
         /\ (invocations' = invocations + 1) <=> (step_counter % query_frequency = 0)
         /\ (invocations' = invocations) <=> (step_counter % query_frequency # 0)
         /\ (step_counter % query_frequency # 0) =>
                (a_hat_store' = a_hat_store /\ policy_call' = policy_call)
         /\ a_hat_store'.inv = invocations'
         /\ lastOp'.action.inv = invocations']_vars

\* the last step of the second chunk, served from the cache
C1_Witness ==
    /\ lastOp.op = "get_action" /\ lastOp.status = "ok"
    /\ query_frequency = 3 /\ lastOp.counter_before = 5
    /\ invocations = 2 /\ lastOp.action.inv = 2

\* C2: a get_action call that returns gives the timestep at index
\* (step counter before the call) mod query_frequency of the cached chunk
\* and leaves the step counter one higher; the k-th returned call after a
\* reset (k from 0) gives index k mod query_frequency.
C2_IndexThenIncrement ==
    [][ReturnedStep =>
         /\ lastOp'.action = [inv |-> a_hat_store'.inv,
                              t |-> step_counter % query_frequency]
         /\ step_counter' = step_counter + 1
         /\ lastOp'.action.t = since_reset % query_frequency]_vars

\* the fourth call after a reset with a chunk of two steps: index 1
C2_Witness ==
    /\ lastOp.op = "get_action" /\ lastOp.status = "ok"
    /\ query_frequency = 2 /\ since_reset = 4 /\ calls > since_reset
    /\ lastOp.counter_before = 3 /\ lastOp.action.t = 1

\* C3: the first get_action call after a reset(), if it returns, invokes
\* the policy, caches the chunk of that invocation and returns its index 0.
C3_ResetThenStepZero ==
    [][(lastOp.op = "reset" /\ ReturnedStep) =>
         /\ invocations' = invocations + 1
         /\ policy_call'.caller = "get_action"
         /\ a_hat_store' = PolicyOutput(invocations', chunk_size)
         /\ lastOp'.action = [inv |-> invocations', t |-> 0]]_vars

\* a reset in the middle of a chunk of three steps, then a call
C3_Witness ==
    /\ lastOp.op = "get_action" /\ lastOp.after = "reset" /\ lastOp.status = "ok"
    /\ query_frequency = 3 /\ calls = 2 /\ invocations = 2
    /\ lastOp.action = [inv |-> 2, t |-> 0]

\* C4 as stated: after reset() the step counter is 0 and the cached chunk
\* is cleared.
C4_ResetClearsCounterAndCache ==
    (lastOp.op = "reset") => (step_counter = 0 /\ a_hat_store = NoChunk)

\* C4 as amended: reset() sets the step counter to 0 and leaves the cached
\* chunk as it was.
C4_ResetClearsCounterOnly ==
    [][(lastOp'.op = "reset") =>
         (step_counter' = 0 /\ a_hat_store' = a_hat_store)]_vars

\* a reset in the middle of an episode: the chunk is still held
C4_Witness ==
    /\ lastOp.op = "reset" /\ lastOp.counter_before > 0
    /\ step_counter = 0 /\ a_hat_store.src = "policy"

\* The type tag has an entry other than 0 and an entry other than 1.
Mixed(type) ==
    /\ \E i \in 1..Len(type) : type[i] # 0
    /\ \E i \in 1..Len(type) : type[i] # 1

Uniform(type, v) == \A i \in 1..Len(type) : type[i] = v

\* the first n components of the last axis of tensor x, as tensor y
IsPrefix(y, x, n) ==
    /\ y.present /\ x.present
    /\ Len(y.dims) = (IF Len(x.dims) < n THEN Len(x.dims) ELSE n)
    /\ \A i \in 1..Len(y.dims) : y.dims[i] = x.dims[i]

TrainingPassOfACTSP == variant = "ACTSP" /\ fwd.op = "_forward_training"
EvalPassOfACTSP == variant = "ACTSP" /\ fwd.op = "forward_eval"

\* C5: the ACTSP training pass on a non-empty batch whose type tag is all 0
\* resolves "robot", selects the whole camera-key list and the robot
\* proprioceptive keys, leaves the action tensor as it was, and hands these
\* to the policy.
C5_UniformZeroIsRobot ==
    (TrainingPassOfACTSP /\ Len(batch.type) > 0 /\ Uniform(batch.type, 0)) =>
        /\ fwd.modality = "robot"
        /\ fwd.cam_keys = camera_keys
        /\ fwd.proprio_keys = proprio_keys
        /\ batch.actions = fwd.actions_in
        /\ fwd.invoked =>
              /\ policy_call.modality = "robot"
              /\ policy_call.qpos = proprio_keys
              /\ [i \in 1..Len(policy_call.images) |-> policy_call.images[i].cam] = camera_keys
              /\ policy_call.actions = fwd.actions_in

C5_Witness ==
    /\ TrainingPassOfACTSP /\ batch.type = <<0, 0>>
    /\ fwd.status = "ok" /\ fwd.invoked
    /\ Len(fwd.actions_in.dims) = 4 /\ Len(policy_call.actions.dims) = 4

HandSelection ==
    /\ fwd.modality = "hand"
    /\ fwd.cam_keys = <<camera_keys[1]>>
    /\ fwd.proprio_keys = proprio_keys_hand
    /\ IsPrefix(batch.actions, fwd.actions_in, 3)
    /\ fwd.invoked =>
          /\ policy_call.modality = "hand"
          /\ policy_call.qpos = proprio_keys_hand
          /\ Len(policy_call.images) = 1
          /\ policy_call.images[1].cam = camera_keys[1]
          /\ IsPrefix(policy_call.actions, fwd.actions_in, 3)

\* C6 as stated: the ACTSP training pass on any batch (with an action
\* tensor) whose type tag is all 1 resolves "hand", selects the first camera
\* key only and the hand proprioceptive keys, and truncates the last axis of
\* the action tensor to its first 3 components before the policy is called.
C6_UniformOneIsHand ==
    (TrainingPassOfACTSP /\ fwd.actions_in.present /\ Uniform(batch.type, 1))
        => HandSelection

\* C6 as amended: the same, for any non-empty batch.
C6_NonEmptyUniformOneIsHand ==
    (TrainingPassOfACTSP /\ fwd.actions_in.present
        /\ Len(batch.type) > 0 /\ Uniform(batch.type, 1))
        => HandSelection

C6_Witness ==
    /\ TrainingPassOfACTSP /\ batch.type = <<1, 1>>
    /\ fwd.status = "ok" /\ fwd.invoked
    /\ Len(fwd.actions_in.dims) = 4 /\ Len(policy_call.actions.dims) = 3

\* C7: an ACTSP forward pass, training or evaluation, on a batch whose type
\* tag is neither all 0 nor all 1 raises the modality error, and the policy
\* is never invoked for that batch.
C7_MixedRaises ==
    (variant = "ACTSP" /\ fwd.op # "none" /\ Mixed(batch.type)) =>
        /\ fwd.status = "ValueError"
        /\ ~ fwd.invoked
        /\ invocations = 0
        /\ policy_call = NoCall

C7_Witness ==
    /\ EvalPassOfACTSP /\ batch.type = <<0, 1>>
    /\ "right_wrist_img" \in batch.obs /\ fwd.actions_in.present
    /\ Len(batch.pad_mask) = chunk_size
    /\ fwd.status = "ValueError"

Probe == IF "right_wrist_img" \in batch.obs THEN "robot" ELSE "hand"

ProbeDecides ==
    /\ fwd.modality = Probe
    /\ (Probe = "robot" \/ fwd.actions_in.present) =>
          /\ fwd.cam_keys = (IF Probe = "robot" THEN camera_keys ELSE <<camera_keys[1]>>)
          /\ fwd.proprio_keys = (IF Probe = "robot" THEN proprio_keys ELSE proprio_keys_hand)
    /\ (Probe = "robot") => batch.actions = fwd.actions_in
    /\ (Probe = "hand" /\ fwd.actions_in.present) =>
          IsPrefix(batch.actions, fwd.actions_in, 3)
    /\ fwd.invoked => policy_call.modality = Probe

\* C8 as stated: in the ACTSP evaluation pass the modality that key
\* selection, action truncation and the policy call use is "robot" if the
\* observation has the key "right_wrist_img" and "hand" otherwise, for every
\* value of the type tag.
C8_ProbeDecidesForEveryTag == EvalPassOfACTSP => ProbeDecides

\* C8 as amended: the same, for every type tag that is all 0 or all 1 (a
\* mixed tag makes the pass raise before the probe).
C8_ProbeDecidesForUniformTag ==
    (EvalPassOfACTSP /\ (Uniform(batch.type, 0) \/ Uniform(batch.type, 1)))
        => ProbeDecides

\* the tag says hand, the observation has the wrist camera: robot
C8_Witness ==
    /\ EvalPassOfACTSP /\ batch.type = <<1, 1>>
    /\ "right_wrist_img" \in batch.obs
    /\ fwd.invoked /\ policy_call.modality = "robot"
    /\ Len(fwd.cam_keys) = 2

\* C9: every call of the policy made by an ACTSP object passes the resolved
\* modality label.
C9_ModalityPassedToEveryCall ==
    (variant = "ACTSP" /\ policy_call.caller # "none") =>
        policy_call.modality \in {"robot", "hand"}

(* ----------------------------- loss ------------------------------------ *)
Positions(x) ==
    {<<b, t, d>> : b \in DOMAIN x, t \in DOMAIN x[1], d \in DOMAIN x[1][1]}

NonPadded == {p \in Positions(loss.actions) : ~ loss.is_pad[p[1]][p[2]]}

Distance(p) == Abs(loss.a_hat[p[1]][p[2]][p[3]] - loss.actions[p[1]][p[2]][p[3]])

RECURSIVE SumDistance(_)
SumDistance(S) ==
    IF S = {} THEN 0
    ELSE LET p == CHOOSE q \in S : TRUE IN Distance(p) + SumDistance(S \ {p})

\* C10: the reconstruction loss equals the sum of |pred - gt| over the
\* non-padded elements divided by the number of non-padded elements.
C10_MeanOverNonPadded ==
    loss.done =>
        loss.l1.num * Cardinality(NonPadded) = SumDistance(NonPadded) * loss.l1.den

(* ------------------------- KL and total loss --------------------------- *)
IsZero(x) == x.rat = 0 /\ x.ln2 = 0

StandardNormal ==
    /\ Len(train.mu) >= 1
    /\ \A b \in 1..Len(train.mu) : \A d \in 1..Len(train.mu[b]) :
          train.mu[b][d] = 0 /\ train.logvar[b][d] = 0

\* C11: for a latent with mu = 0 and logvar = 0 in every component, of any
\* batch size >= 1 and any dimension, the three quantities kl_divergence
\* returns (batch-mean total, per-dimension mean, mean over dimensions) are
\* exactly 0.
C11_StandardNormalKLIsZero ==
    (train.stage \in {"predictions", "losses"} /\ StandardNormal) =>
        /\ Len(train.kl.total) = 1 /\ IsZero(train.kl.total[1])
        /\ Len(train.kl.dimension_wise) = Len(train.mu[1])
        /\ \A d \in 1..Len(train.kl.dimension_wise) : IsZero(train.kl.dimension_wise[d])
        /\ Len(train.kl.mean) = 1 /\ IsZero(train.kl.mean[1])

C11_Witness ==
    /\ train.stage = "predictions" /\ StandardNormal
    /\ Len(train.mu) = 2 /\ Len(train.mu[1]) = 2 /\ train.ndim = 4
    /\ IsZero(train.kl.total[1])

\* twice the KL of sample b summed over the latent dimensions, as
\* (mu^2 + exp(logvar) - 1) - logvar
RECURSIVE SampleKLRat(_, _)
SampleKLRat(b, d) ==
    IF d = 0 THEN 0
    ELSE train.mu[b][d] * train.mu[b][d] + Pow2(train.logvar[b][d]) - 1
         + SampleKLRat(b, d - 1)

RECURSIVE SampleKLLn2(_, _)
SampleKLLn2(b, d) ==
    IF d = 0 THEN 0 ELSE (0 - train.logvar[b][d]) + SampleKLLn2(b, d - 1)

RECURSIVE BatchKLRat(_)
BatchKLRat(b) ==
    IF b = 0 THEN 0 ELSE SampleKLRat(b, Len(train.mu[b])) + BatchKLRat(b - 1)

RECURSIVE BatchKLLn2(_)
BatchKLLn2(b) ==
    IF b = 0 THEN 0 ELSE SampleKLLn2(b, Len(train.mu[b])) + BatchKLLn2(b - 1)

\* C12: the action loss equals reconstruction loss + kl_weight * KL loss,
\* the KL loss being the mean over the batch of the per-sample KL summed
\* over the latent dimensions; the reconstruction and KL losses come back
\* unchanged.
C12_TotalLoss ==
    (train.stage = "losses") =>
        LET B == Len(train.mu)
            r == train.recons
            a == train.losses.action_loss
        IN  /\ train.losses.recons_loss = train.recons
            /\ train.losses.kl_loss = train.kl.total[1]
            \* kl_loss = (sum over the batch) / (2 * B)
            /\ train.losses.kl_loss.rat * 2 * B = BatchKLRat(B) * train.losses.kl_loss.den
            /\ train.losses.kl_loss.ln2 * 2 * B = BatchKLLn2(B) * train.losses.kl_loss.den
            \* action_loss = r + w * kl, with kl = sum / (2 * B)
            /\ a.rat * r.den * 2 * B =
                  (r.rat * 2 * B + train.kl_weight * BatchKLRat(B) * r.den) * a.den
            /\ a.ln2 * 2 * B = train.kl_weight * BatchKLLn2(B) * a.den

C12_Witness ==
    /\ train.stage = "losses" /\ train.kl_weight = 10
    /\ Len(train.mu) = 2 /\ Len(train.mu[1]) = 2
    /\ train.recons = Num(1, 0, 2)
    /\ train.mu[1][1] = 1 /\ train.logvar[2][2] = 1
    /\ ~ IsZero(train.losses.kl_loss)

(* ------------------- projection, augmentation, predictions ------------- *)
\* the pass got as far as the projection and the batch has every selected key
ReachedProjection ==
    /\ fwd.cam_keys # <<>>
    /\ (Range(fwd.cam_keys) \cup Range(fwd.proprio_keys)) \subseteq batch.obs

\* C13: the padding indicator handed to the policy is (pad_mask == 0), and a
\* forward pass, training or evaluation, on a batch whose pad mask has a
\* time extent other than the chunk length fails without invoking the
\* policy; it fails on the assertion whenever the projection gets that far.
C13_PadExtentAsserted ==
    /\ (fwd.op # "none" /\ Len(batch.pad_mask) # chunk_size) =>
          /\ fwd.status \in {"AssertionError", "KeyError", "ValueError"}
          /\ ~ fwd.invoked
          /\ invocations = 0
          /\ policy_call = NoCall
          /\ (ReachedProjection /\ fwd.actions_in.present) =>
                fwd.status = "AssertionError"
    /\ fwd.invoked =>
          policy_call.is_pad = [t \in 1..chunk_size |-> batch.pad_mask[t] = 0]

C13_Witness ==
    /\ fwd.op = "forward_eval" /\ fwd.status = "AssertionError"
    /\ Len(batch.pad_mask) = chunk_size + 1
    /\ ReachedProjection /\ ~ fwd.invoked

\* C14: the images of a policy call are color-jittered then normalized when
\* the training forward pass makes the call, and normalized only when the
\* evaluation forward pass or get_action makes it.
C14_JitterInTrainingOnly ==
    (policy_call.caller # "none") =>
        \A i \in 1..Len(policy_call.images) :
            policy_call.images[i].ops =
                (IF policy_call.caller = "_forward_training"
                 THEN <<"color_jitter", "normalize">>
                 ELSE <<"normalize">>)

\* C19: the predictions of a training forward pass hold, under actions, the
\* chunk the policy predicted, together with the two losses.
C19_PredictionsHoldPredictedChunk ==
    (fwd.op = "_forward_training" /\ fwd.status = "ok") =>
        /\ fwd.predictions.actions.present
        /\ fwd.predictions.actions.src = "policy"
        /\ fwd.predictions.losses

\* C20: the evaluation forward pass on a batch without an actions entry,
\* valid in everything else, returns predicted actions.
C20_InferenceOnlyBatch ==
    (/\ fwd.op = "forward_eval"
     /\ ~ fwd.actions_in.present
     /\ Len(batch.type) > 0
     /\ (Uniform(batch.type, 0) \/ Uniform(batch.type, 1))
     /\ batch.obs = ObsKeyUniverse
     /\ Len(batch.pad_mask) = chunk_size) =>
        /\ fwd.status = "ok"
        /\ fwd.invoked
        /\ fwd.predictions.actions.src = "policy"

(* ----------------------------- batch adapter --------------------------- *)
\* C15 as stated: every observation entry other than the padding mask is
\* output reduced to its time index 0, the padding mask is output with its
\* full time extent, and the type tag is copied through.
C15_EveryEntryButPadMaskSliced ==
    (adapt.stage = "ok") =>
        /\ \A k \in DOMAIN adapt.raw.obs \ {"pad_mask"} :
              /\ k \in DOMAIN adapt.out.obs
              /\ adapt.out.obs[k].val = adapt.raw.obs[k].val[1]
        /\ adapt.out.obs["pad_mask"].val = adapt.raw.obs["pad_mask"].val
        /\ adapt.out.type.val = adapt.raw.type.val

\* C15: the adapter outputs every observation entry other than the padding
\* mask and an entry named "type" reduced to its time index 0, leaves an
\* observation entry named "type" out, outputs the padding mask with its
\* full time extent, and copies the batch's type tag through with its
\* content unchanged, every tensor as a float tensor.
C15_EveryEntryButPadMaskAndTypeSliced ==
    (adapt.stage = "ok") =>
        /\ DOMAIN adapt.out.obs = DOMAIN adapt.raw.obs \ {"type"}
        /\ \A k \in DOMAIN adapt.raw.obs \ {"pad_mask", "type"} :
              /\ adapt.out.obs[k].val = adapt.raw.obs[k].val[1]
              /\ adapt.out.obs[k].dtype = "float32"
        /\ adapt.out.obs["pad_mask"] =
              Tensor("float32", adapt.raw.obs["pad_mask"].val)
        /\ adapt.out.type = Tensor("float32", adapt.raw.type.val)
        /\ adapt.out.has_actions = (adapt.ac_key \in adapt.raw.ac_keys)
        /\ adapt.out.goal_obs.val = adapt.raw.goal_obs.val

C15_Witness ==
    /\ adapt.stage = "ok"
    /\ {"front_img_1", "type"} \subseteq DOMAIN adapt.raw.obs
    /\ Len(adapt.raw.obs["pad_mask"].val) = 2
    /\ adapt.out.obs["front_img_1"].val = <<"front_img_1", 0>>
    /\ Len(adapt.out.obs["pad_mask"].val) = 2

(* -------------------------- range normalisation ------------------------ *)
\* C16 as stated: general_unnorm(general_norm(x, -1, 1, lo, hi), -1, 1, lo, hi)
\* is x for every x in [lo, hi] with lo < hi.
C16_RoundTripTargetRangeFirst ==
    (norm.stage = "unnormed" /\ norm.args = <<0 - 1, 1, norm.lo, norm.hi>>) =>
        norm.back = norm.x

\* C16: general_unnorm(general_norm(x, -1, 1, lo, hi), lo, hi, -1, 1) is x
\* for every x in [lo, hi] with lo < hi, and the normalised value lies in
\* [-1, 1].
C16_RoundTripDataRangeFirst ==
    /\ (norm.stage = "unnormed" /\ norm.args = <<norm.lo, norm.hi, 0 - 1, 1>>) =>
          norm.back = norm.x
    /\ (norm.stage # "none" /\ norm.stage # "raw") =>
          /\ 0 - norm.y.den <= norm.y.num
          /\ norm.y.num <= norm.y.den

C16_Witness ==
    /\ norm.stage = "unnormed"
    /\ norm.args = <<norm.lo, norm.hi, 0 - 1, 1>>
    /\ norm.lo = 0 - 1 /\ norm.hi = 2
    /\ norm.x = Frac(1, 2)
    /\ norm.y = Frac(0, 1)
    /\ norm.back = Frac(1, 2)

(* ------------------------------- metrics ------------------------------- *)
\* every step of the prediction is offset from the ground truth by d
OffsetBy(d) ==
    \A t \in 1..Len(metrics.actions) : \A j \in 1..Axes :
        metrics.pred_values[t][j] - metrics.actions[t][j] = d[j]

RECURSIVE SquaredError(_, _)
\* the sum over the steps 1..t of ((pred - gt) x 100)^2 on axis j
SquaredError(j, t) ==
    IF t = 0 THEN 0
    ELSE LET e == (metrics.pred_values[t][j] - metrics.actions[t][j]) * 100
         IN  e * e + SquaredError(j, t - 1)

\* C17: add_metrics appends one entry to each list and keeps the earlier
\* ones; the entry of paired_mse is, per axis, the mean over the steps of
\* ((pred - gt) x 100)^2 and the entry of final_mse is, per axis,
\* ((pred_last - gt_last) x 100)^2; when every step is offset by the same
\* vector d both entries are (100 d)^2 per axis.
C17_PairedAndFinalMse ==
    (metrics.stage = "added") =>
        LET T == Len(metrics.actions)
            n == metrics.prior + 1
            paired == metrics.paired_mse[n]
            final == metrics.final_mse[n]
        IN  /\ Len(metrics.paired_mse) = n /\ Len(metrics.final_mse) = n
            /\ \A i \in 1..metrics.prior :
                  /\ metrics.paired_mse[i] = EarlierEntry
                  /\ metrics.final_mse[i] = EarlierEntry
            /\ \A j \in 1..Axes :
                  /\ paired[j].num * T = SquaredError(j, T) * paired[j].den
                  /\ paired[j].den > 0
                  /\ final[j].den = 1
                  /\ final[j].num = SquaredError(j, T) - SquaredError(j, T - 1)
            /\ \A d \in [1..Axes -> (0 - MaxCoord)..MaxCoord] :
                  OffsetBy(d) =>
                      \A j \in 1..Axes :
                          /\ paired[j] = Frac(10000 * d[j] * d[j], 1)
                          /\ final[j] = Frac(10000 * d[j] * d[j], 1)

C17_Witness ==
    /\ metrics.stage = "added"
    /\ metrics.prior = 1
    /\ Len(metrics.actions) = 2
    /\ \A t \in 1..2 : metrics.actions[t] = <<0, 0, 0>>
    /\ OffsetBy(<<1, 0, 0>>)
    /\ metrics.paired_mse[2] = <<Frac(10000, 1), Frac(0, 1), Frac(0, 1)>>
    /\ metrics.final_mse[2] = <<Frac(10000, 1), Frac(0, 1), Frac(0, 1)>>

(* -------------------------- evaluation harness ------------------------- *)
\* the step writes a video file
Flushes == Len(harness'.files) = Len(harness.files) + 1
\* the step is a pass of the sample loop that stores a frame
StoresFrame == harness'.produced = harness.produced + 1
\* the step leaves the loop over the loader
LeavesLoop == harness.stage = "loader" /\ harness'.stage = "done"

\* C18: a step writes a file exactly when it is a sample pass that finds
\* 700 frames in the buffer or when it leaves the loader loop, and it
\* writes one file only; the threshold flush writes segment vids_written,
\* advances vids_written by 1 and restarts the buffer, which then holds
\* only the new frame at index 0; the frame count is the number of frames
\* stored since the latest flush and never exceeds 700; the files written
\* carry the segment indices 0, 1, 2, ... in order, so their names differ.
C18_FlushAtThresholdAndEnd ==
    /\ [][/\ Len(harness'.files) \in {Len(harness.files), Len(harness.files) + 1}
          /\ Flushes <=> \/ StoresFrame /\ harness.count = T_val_utils
                         \/ LeavesLoop
          /\ (Flushes /\ StoresFrame) =>
                /\ harness'.files[Len(harness'.files)].name
                      = <<harness.type, harness.vids_written>>
                /\ harness'.vids_written = harness.vids_written + 1
                /\ harness'.count = 1
                /\ harness'.video
                      = [EmptyVideo(T_val_utils) EXCEPT ![1] = harness'.produced]
          /\ (StoresFrame /\ ~ Flushes) =>
                /\ harness'.count = harness.count + 1
                /\ harness'.vids_written = harness.vids_written
          /\ LeavesLoop =>
                /\ harness'.files[Len(harness'.files)].name
                      = <<harness.type, harness.vids_written>>
                /\ harness'.vids_written = harness.vids_written
       ]_vars
    /\ [](harness.stage \notin {"none", "entry"} =>
            /\ harness.count <= T_val_utils
            /\ harness.produced > 0 =>
                  harness.count = harness.produced
                                  - T_val_utils * harness.vids_written
            /\ \A k \in 1..Len(harness.files) :
                  harness.files[k].name = <<harness.type, k - 1>>
            /\ \A k, l \in 1..Len(harness.files) :
                  k # l => harness.files[k].name # harness.files[l].name)

C18_Witness ==
    /\ harness.stage = "done"
    /\ Len(harness.files) = 3
    /\ harness.vids_written = 2
    /\ harness.produced > 2 * T_val_utils
    /\ harness.count = harness.produced - 2 * T_val_utils

\* C21: when max_samples is given, the number of trajectories added to the
\* metrics never exceeds max_samples.
C21_AtMostMaxSamples ==
    harness.has_max => harness.evaluated <= harness.max_samples

RECURSIVE Segments(_)
\* the frames of the first k files written, in index order
Segments(k) ==
    IF k = 0 THEN <<>> ELSE Segments(k - 1) \o harness.files[k].frames

\* C22: when the evaluation loop of val_utils has returned, the
\* concatenation of the written segments in index order is the sequence of
\* the frames produced, each of them once.
C22_NoFrameLostOrDuplicated ==
    (harness.stage = "done") =>
        Segments(Len(harness.files)) = [n \in 1..harness.produced |-> n]

\* the buffer length of the loop the harness record belongs to
BufferLength ==
    IF harness.stage \in {"eval_entry", "eval_loader", "eval_batch", "eval_done"}
    THEN T_eval ELSE T_val_utils

\* C23: in both evaluation loops every frame is written at an index
\* 0 <= count < T of the buffer (slot count + 1 of the sequence) and is
\* found there afterwards, and the frame counter never exceeds T.
C23_WriteIndexInBuffer ==
    /\ [][StoresFrame =>
             /\ 1 <= harness'.count /\ harness'.count <= BufferLength
             /\ Len(harness'.video) = BufferLength
             /\ harness'.video[harness'.count] = harness'.produced
       ]_vars
    /\ [](/\ 0 <= harness.count
          /\ harness.count <= BufferLength)

C23_Witness ==
    /\ harness.stage = "eval_loader"
    /\ harness.count = T_eval
    /\ harness.vids_written = 1
    /\ harness.video[T_eval] = harness.produced

(* ------------------------------- episodes ------------------------------ *)
\* the latest operation is a get_action call that returned an action
Served == lastOp.op = "get_action" /\ lastOp.status = "ok"

\* C24: a get_action call that returns reads its action from a non-empty
\* chunk, at an index inside it, and that chunk is the output of a policy
\* invocation; once reset() has been called after n invocations, every
\* action served from then on comes from an invocation later than the n-th.
C24_ChunkOfCurrentEpisode ==
    /\ [][ReturnedStep =>
             /\ a_hat_store'.src = "policy"
             /\ a_hat_store'.T > 0
             /\ lastOp'.action.inv = a_hat_store'.inv
             /\ lastOp'.action.inv \in 1..invocations'
             /\ lastOp'.action.t \in 0..(a_hat_store'.T - 1)
       ]_vars
    /\ \A n \in 0..MaxCalls :
          []((lastOp.op = "reset" /\ invocations = n) =>
                [](Served => lastOp.action.inv > n))

\* a chunk of three steps is cut short by a reset after its first step;
\* the call after the reset is served from a new invocation
C24_Witness ==
    /\ Served /\ lastOp.after = "reset"
    /\ query_frequency = 3
    /\ invocations = 2
    /\ a_hat_store.inv = 2
    /\ lastOp.action = [inv |-> 2, t |-> 0]
    /\ since_reset = 1

(* ---------------------------- empty type tag --------------------------- *)
\* C25 as stated: an ACTSP forward pass on a batch whose type tag has no
\* entries raises the modality error and resolves neither "robot" nor "hand".
C25_EmptyTagRejected ==
    (variant = "ACTSP" /\ fwd.op # "none" /\ Len(batch.type) = 0) =>
        /\ fwd.status = "ValueError"
        /\ fwd.modality \notin {"robot", "hand"}

\* C25: the modality check rejects a type tag exactly when the tag has an
\* entry other than 0 and an entry other than 1; a tag with no entries is
\* all 0 vacuously and is resolved as "robot", not rejected, and the
\* training pass goes on with the robot key lists.
C25_EmptyTagIsRobot ==
    (variant = "ACTSP" /\ fwd.op # "none") =>
        /\ (fwd.status = "ValueError") <=> Mixed(batch.type)
        /\ (fwd.op = "_forward_training" /\ ~ Mixed(batch.type)) =>
              fwd.modality = (IF Uniform(batch.type, 0) THEN "robot" ELSE "hand")
        /\ (fwd.op = "_forward_training" /\ Len(batch.type) = 0) =>
              /\ fwd.modality = "robot"
              /\ fwd.cam_keys = camera_keys
              /\ fwd.proprio_keys = proprio_keys

C25_Witness ==
    /\ TrainingPassOfACTSP
    /\ batch.type = <<>>
    /\ fwd.status # "ValueError"
    /\ fwd.modality = "robot"
    /\ fwd.cam_keys = camera_keys

====
